---- MODULE Spec2Model ----
(***************************************************************************)
(* Model of please-bundle (src/main.rs): the package registry built by     *)
(* main from the --package directories, load_package_entrypoint, and the   *)
(* Resolver / Loader handed to swc_bundler.                                 *)
(*                                                                          *)
(* A Rust String is a sequence of symbols, written as a tuple of one-symbol *)
(* TLA+ strings: "./i" is <<".", "/", "i">>.  Option<T> is a sequence of    *)
(* length at most one: None is << >>, Some(x) is <<x>>.  A PathBuf is the   *)
(* record of its root flag and its components.                              *)
(***************************************************************************)
EXTENDS Integers, Sequences, FiniteSets, TLC

\* ------------------------------------------------------------- Option<T>

None == << >>

Some(x) == << x >>

IsSome(o) == o # << >>

Unwrap(o) == o[1]

\* entrypoints.iter().find(|x| x.is_some()): the first present option of a
\* sequence of options, None when there is none.
RECURSIVE FindSome(_)
FindSome(entrypoints) ==
    IF entrypoints = << >> THEN None
    ELSE IF IsSome(Head(entrypoints)) THEN Head(entrypoints)
    ELSE FindSome(Tail(entrypoints))

\* ------------------------------------------------------------- paths

CurDir == <<".">>

ParentDir == <<".", ".">>

\* The components of a path string: split at "/", empty components dropped,
\* and "." dropped except as the first component of a relative path
\* (std::path::Components).
RECURSIVE SplitPath(_, _, _, _)
SplitPath(s, cur, acc, abs) ==
    LET keep == cur # << >> /\ (cur # CurDir \/ (acc = << >> /\ ~abs))
        acc2 == IF keep THEN Append(acc, cur) ELSE acc
    IN  IF s = << >> THEN acc2
        ELSE IF Head(s) = "/" THEN SplitPath(Tail(s), << >>, acc2, abs)
        ELSE SplitPath(Tail(s), Append(cur, Head(s)), acc, abs)

\* PathBuf::from(string) / PathBuf::from_str(string) / Path::new(string).
PathBufFrom(s) ==
    LET abs == s # << >> /\ Head(s) = "/"
    IN  [abs |-> abs, comps |-> SplitPath(s, << >>, << >>, abs)]

\* Path::is_relative
is_relative(path) == ~path.abs

\* Path::join: an absolute argument replaces the receiver.
join(base, path) ==
    IF path.abs THEN path
    ELSE [abs |-> base.abs,
          comps |-> base.comps \o
                    (IF base.comps # << >> /\ path.comps # << >> /\ Head(path.comps) = CurDir
                     THEN Tail(path.comps) ELSE path.comps)]

\* Path::parent: None for the root and for the empty path.
parent(path) ==
    IF path.comps = << >> THEN None
    ELSE Some([abs |-> path.abs, comps |-> SubSeq(path.comps, 1, Len(path.comps) - 1)])

AbsPath(comps) == [abs |-> TRUE, comps |-> comps]

\* ------------------------------------------------------------- file system

VARIABLES
    fs,            \* the file system the run sees (never written by the program)
    args_packages, \* args.packages: the --package directories, in order
    idx,           \* position of the try_fold over args.packages
    packages,      \* the HashMap<String, FileName> being folded / Resolver.packages
    pc,            \* "build", "ready", "failed" (main returned Err), "panicked"
    scan,          \* the last call of load_package_entrypoint and its outcome
    emitted,       \* history: what every successful scan emitted, in fold order
    skipped,       \* history: the positions the exists() filter dropped
    request        \* the bundler's last call of Resolver::resolve or Loader::load

vars == <<fs, args_packages, idx, packages, pc, scan, emitted, skipped, request>>

\* The directories of the file system: every proper prefix of a file.
Dirs == UNION {{SubSeq(f, 1, n) : n \in 0..(Len(f) - 1)} : f \in fs.files}

IsDir(comps) == comps \in Dirs

\* One step of path resolution per component, as realpath(3) does it: every
\* prefix must exist, ".." goes up (the root is its own parent), a symbolic
\* link is replaced by its target.  None when a component does not exist or a
\* non-directory is traversed.
RECURSIVE Walk(_, _)
Walk(cur, rest) ==
    IF rest = << >> THEN Some(cur)
    ELSE IF ~IsDir(cur) THEN None
    ELSE LET c == Head(rest)
             nxt == Append(cur, c)
         IN  IF c = CurDir THEN Walk(cur, Tail(rest))
             ELSE IF c = ParentDir
                  THEN Walk(IF cur = << >> THEN cur ELSE SubSeq(cur, 1, Len(cur) - 1), Tail(rest))
             ELSE IF nxt \in DOMAIN fs.links THEN Walk(fs.links[nxt], Tail(rest))
             ELSE IF nxt \in fs.files \/ IsDir(nxt) THEN Walk(nxt, Tail(rest))
             ELSE None

\* Path::canonicalize: Some(absolute path, links and dots resolved) or None
\* (the io::Error).  A relative path starts at the working directory; the
\* empty path does not exist.
canonicalize(path) ==
    LET w == IF path.abs THEN Walk(<< >>, path.comps)
             ELSE IF path.comps = << >> THEN None
             ELSE Walk(fs.cwd, path.comps)
    IN  IF IsSome(w) THEN Some(AbsPath(Unwrap(w))) ELSE None

\* Path::exists: the metadata of the path, links followed, can be read.
exists(path) == IsSome(canonicalize(path))

\* File::open + read_to_string: the contents of a regular file, None (the
\* io::Error) for a missing path or a directory.
read_to_string(path) ==
    LET c == canonicalize(path)
    IN  IF IsSome(c) /\ Unwrap(c).comps \in fs.files THEN Some(Unwrap(c).comps) ELSE None

\* serde_json::from_str::<PackageJson>: the manifest a file's text parses to,
\* None (the serde error) for a file that holds no manifest.
from_str(contents) ==
    IF contents \in DOMAIN fs.manifests THEN fs.manifests[contents] ELSE None

\* ------------------------------------------------------------- FileName

\* swc_common::FileName: Real(PathBuf), or a variant that names no file
\* (Anon, Custom, ...).
EmptyPath == [abs |-> FALSE, comps |-> << >>]

Real(path) == [kind |-> "Real", path |-> path]

Anon == [kind |-> "Anon", path |-> EmptyPath]

Custom == [kind |-> "Custom", path |-> EmptyPath]

\* FileName::is_real
is_real(f) == f.kind = "Real"

\* ------------------------------------------------------------- Result<T, Error>

Ok(v) == [kind |-> "Ok", val |-> v]

\* Err(anyhow!(..)) and the errors `?` propagates; why names the place.
Err(why) == [kind |-> "Err", val |-> << >>, why |-> why]

\* The thread panicked (unwrap on Err, unreachable!, a slice out of range).
Panic(why) == [kind |-> "Panic", val |-> << >>, why |-> why]

\* ------------------------------------------------------------- load_package_entrypoint

\* Mutant of SliceFrom1: the key is appended whole.
SliceFrom0(export_name) == export_name

\* &export_name[1..]: the key without its first symbol; the slice panics on
\* the empty key.
SliceFrom1(export_name) == SubSeq(export_name, 2, Len(export_name))

\* The closure mapped over exports.iter() (lines 101-118) for one entry.
ExportEntry(package_dir, name, export_name, config) ==
    LET entrypoints == <<config.import, config.default>>
        found == FindSome(entrypoints)
    IN  IF IsSome(found)
        THEN LET entrypoint_path == PathBufFrom(Unwrap(found))
                 full_entrypoint == canonicalize(join(package_dir, entrypoint_path))
             IN  IF ~IsSome(full_entrypoint) THEN Panic("unwrap")
                 ELSE IF export_name = << >> THEN Panic("slice")
                 ELSE Ok(<<name \o SliceFrom1(export_name), Real(Unwrap(full_entrypoint))>>)
        ELSE Err("no entrypoint")

\* .map(closure).collect::<Result<Vec<_>, Error>>() over the entries in the
\* order the HashMap yields them: the first Err ends the iteration and is the
\* result, a panic ends the call, otherwise the pairs in visiting order.
RECURSIVE CollectExports(_, _, _, _, _)
CollectExports(package_dir, name, exports, order, acc) ==
    IF order = << >> THEN Ok(acc)
    ELSE LET r == ExportEntry(package_dir, name, Head(order), exports[Head(order)])
         IN  IF r.kind = "Ok"
             THEN CollectExports(package_dir, name, exports, Tail(order), Append(acc, r.val))
             ELSE r

\* Mutant of LegacyEntry: main is looked at first, browser last.
LegacyEntryMainFirst(package_dir, name, package_json) ==
    LET entrypoints == <<package_json.main, package_json.module, package_json.browser>>
        found == FindSome(entrypoints)
    IN  IF IsSome(found)
        THEN LET full_entrypoint == canonicalize(join(package_dir, PathBufFrom(Unwrap(found))))
             IN  IF ~IsSome(full_entrypoint) THEN Err("canonicalize")
                 ELSE Ok(<< <<name, Real(Unwrap(full_entrypoint))>> >>)
        ELSE Err("no entrypoint")

\* The else branch (lines 121-132): browser, then module, then main.
LegacyEntry(package_dir, name, package_json) ==
    LET entrypoints == <<package_json.browser, package_json.module, package_json.main>>
        found == FindSome(entrypoints)
    IN  IF IsSome(found)
        THEN LET full_entrypoint == canonicalize(join(package_dir, PathBufFrom(Unwrap(found))))
             IN  IF ~IsSome(full_entrypoint) THEN Err("canonicalize")
                 ELSE Ok(<< <<name, Real(Unwrap(full_entrypoint))>> >>)
        ELSE Err("no entrypoint")

\* Mutant of TakesExportsBranch: an empty exports map falls through to the
\* legacy fields.
TakesExportsBranchNonEmpty(package_json) ==
    IsSome(package_json.exports) /\ DOMAIN Unwrap(package_json.exports) # {}

\* if let Some(exports) = package_json.exports (line 99).
TakesExportsBranch(package_json) == IsSome(package_json.exports)

\* load_package_entrypoint(path), the exports map visited in `order`.
load_package_entrypoint(path, order) ==
    LET contents == read_to_string(path)
    IN  IF ~IsSome(contents) THEN Err("read")
        ELSE LET parsed == from_str(Unwrap(contents))
             IN  IF ~IsSome(parsed) THEN Err("parse")
                 ELSE IF ~IsSome(parent(path)) THEN Err("no package directory")
                 ELSE LET package_json == Unwrap(parsed)
                          package_dir == Unwrap(parent(path))
                      IN  IF ~IsSome(package_json.name) THEN Err("no name")
                          ELSE IF TakesExportsBranch(package_json)
                          THEN CollectExports(package_dir, Unwrap(package_json.name),
                                              Unwrap(package_json.exports), order, << >>)
                          ELSE LegacyEntry(package_dir, Unwrap(package_json.name), package_json)

\* The orders a HashMap of these keys may be iterated in.
Orders(keys) ==
    {o \in [1..Cardinality(keys) -> keys] : \A k \in keys : \E i \in DOMAIN o : o[i] = k}

\* The manifest at path, when the file parses to one.
ManifestAt(path) ==
    LET contents == read_to_string(path)
    IN  IF IsSome(contents) THEN from_str(Unwrap(contents)) ELSE None

\* The visiting orders of the exports map of the manifest at path.
ExportOrders(path) ==
    LET m == ManifestAt(path)
    IN  IF IsSome(m) /\ IsSome(Unwrap(m).exports)
        THEN Orders(DOMAIN Unwrap(Unwrap(m).exports))
        ELSE {<< >>}

\* ------------------------------------------------------------- main: the registry

\* Mutant of insert: an existing key keeps its value (entry().or_insert()).
insert_if_absent(map, name, entrypoint_path) ==
    [k \in DOMAIN map \cup {name} |-> IF k \in DOMAIN map THEN map[k] ELSE entrypoint_path]

\* map.insert(name, entrypoint_path): a later insertion replaces the value.
insert(map, name, entrypoint_path) ==
    [k \in DOMAIN map \cup {name} |-> IF k = name THEN entrypoint_path ELSE map[k]]

\* for (name, entrypoint_path) in pairs { map.insert(..) } (lines 145-147).
RECURSIVE InsertAll(_, _)
InsertAll(map, pairs) ==
    IF pairs = << >> THEN map
    ELSE InsertAll(insert(map, Head(pairs)[1], Head(pairs)[2]), Tail(pairs))

EmptyMap == [k \in {} |-> Anon]

PackageJsonName == <<"p", "a", "c", "k", "a", "g", "e", ".", "j", "s", "o", "n">>

\* Path::new(package_path).join("package.json") (line 142).
ManifestPath(package_path) == join(PathBufFrom(package_path), PathBufFrom(PackageJsonName))

\* .filter(|package_path| package_path.exists()) (line 143).
PassesFilter(package_path) == exists(package_path)

NoScan == [called |-> FALSE, at |-> 0, path |-> EmptyPath, order |-> << >>,
           before |-> EmptyMap, result |-> Err("none")]

NoRequest == [op |-> "none", f |-> Anon, specifier |-> << >>, result |-> Err("none")]

\* One element of args.packages goes through map, filter and the try_fold
\* closure (lines 141-149): a directory without a manifest is dropped by the
\* filter; otherwise the manifest is loaded and, on Ok, its pairs inserted;
\* Err leaves main through `?`, a panic ends the process.
FoldPackage ==
    /\ pc = "build"
    /\ idx <= Len(args_packages)
    /\ LET path == ManifestPath(args_packages[idx])
       IN  IF ~PassesFilter(path)
           THEN /\ skipped' = skipped \cup {idx}
                /\ idx' = idx + 1
                /\ UNCHANGED <<packages, pc, scan, emitted>>
           ELSE \E order \in ExportOrders(path) :
                  LET r == load_package_entrypoint(path, order)
                  IN  /\ scan' = [called |-> TRUE, at |-> idx, path |-> path, order |-> order,
                                  before |-> packages, result |-> r]
                      /\ IF r.kind = "Ok"
                         THEN /\ packages' = InsertAll(packages, r.val)
                              /\ emitted' = Append(emitted, [at |-> idx, pairs |-> r.val])
                              /\ idx' = idx + 1
                              /\ pc' = pc
                         ELSE /\ pc' = IF r.kind = "Err" THEN "failed" ELSE "panicked"
                              /\ UNCHANGED <<packages, emitted, idx>>
                      /\ UNCHANGED skipped
    /\ UNCHANGED <<fs, args_packages, request>>

\* The fold is over: `?` yields the map and the Resolver is built from it
\* (lines 149, 177).
FinishBuild ==
    /\ pc = "build"
    /\ idx > Len(args_packages)
    /\ pc' = "ready"
    /\ UNCHANGED <<fs, args_packages, idx, packages, scan, emitted, skipped, request>>

\* ------------------------------------------------------------- Resolver::resolve

\* Mutant of resolve: a file next to base is preferred to the registry.
resolve_file_first(base, module_specifier) ==
    LET path == PathBufFrom(module_specifier)
        sibling == IF is_real(base) /\ is_relative(path) /\ IsSome(parent(base.path))
                   THEN canonicalize(join(Unwrap(parent(base.path)), path))
                   ELSE None
    IN  IF IsSome(sibling) THEN Ok(Real(Unwrap(sibling)))
        ELSE IF module_specifier \in DOMAIN packages THEN Ok(packages[module_specifier])
        ELSE IF ~is_real(base) THEN Err("base isn't a real file")
        ELSE IF is_relative(path) THEN Err("canonicalize")
        ELSE Ok(Real(path))

\* Mutant of resolve: a relative path that cannot be canonicalized is returned
\* as joined.
resolve_best_effort(base, module_specifier) ==
    IF module_specifier \in DOMAIN packages THEN Ok(packages[module_specifier])
    ELSE IF ~is_real(base) THEN Err("base isn't a real file")
    ELSE LET path == PathBufFrom(module_specifier)
         IN  IF is_relative(path)
             THEN IF ~IsSome(parent(base.path)) THEN Err("no parent")
                  ELSE LET joined == join(Unwrap(parent(base.path)), path)
                           full_path == canonicalize(joined)
                       IN  IF ~IsSome(full_path) THEN Ok(Real(joined))
                           ELSE Ok(Real(Unwrap(full_path)))
             ELSE Ok(Real(path))

resolve(base, module_specifier) ==
    IF module_specifier \in DOMAIN packages THEN Ok(packages[module_specifier])
    ELSE IF ~is_real(base) THEN Err("base isn't a real file")
    ELSE LET path == PathBufFrom(module_specifier)
         IN  IF is_relative(path)
             THEN LET base_path == base.path
                  IN  IF ~IsSome(parent(base_path)) THEN Err("no parent")
                      ELSE LET base_dir_path == Unwrap(parent(base_path))
                               full_path == canonicalize(join(base_dir_path, path))
                           IN  IF ~IsSome(full_path) THEN Err("canonicalize")
                               ELSE Ok(Real(Unwrap(full_path)))
             ELSE Ok(Real(path))

\* ------------------------------------------------------------- Loader::load

\* parses: whether parse_file_as_module accepts the file's text.
load(f, parses) ==
    IF f.kind = "Real"
    THEN IF ~IsSome(read_to_string(f.path)) THEN Err("load_file")
         ELSE IF ~parses THEN Panic("failed to parse")
         ELSE Ok(f)
    ELSE Panic("unreachable")

\* ------------------------------------------------------------- the runs checked

\* The longest list of --package arguments.
MaxPackages == 2

\* The package names of the manifests.
NameA == <<"a">>

NameAB == <<"a", "/", "b">>

\* Relative targets inside a package directory: i, m, n are files, l is a
\* symbolic link to n, x does not exist.
TargetI == <<".", "/", "i">>

TargetM == <<".", "/", "m">>

TargetL == <<"l">>

TargetX == <<".", "/", "x">>

RootKey == <<".">>

SubKey == <<".", "/", "b">>

ExportConfigs ==
    {[import |-> i, default |-> d] :
        i \in {None, Some(TargetI), Some(TargetX), Some(TargetL)},
        d \in {None, Some(TargetM)}}

ExportMaps == UNION {[keys -> ExportConfigs] : keys \in SUBSET {RootKey, SubKey}}

Manifest(name, browser, module, main, exports) ==
    [name |-> name, browser |-> browser, module |-> module, main |-> main,
     exports |-> exports]

LegacyManifests ==
    {Manifest(name, browser, module, main, None) :
        name \in {None, Some(NameA), Some(NameAB)},
        browser \in {None, Some(TargetI), Some(TargetX)},
        module \in {None, Some(TargetM)},
        main \in {None, Some(TargetL)}}

OnlyRoot(config) == [k \in {RootKey} |-> config]

ExportsManifests ==
    {Manifest(Some(NameA), legacy[1], None, legacy[2], Some(exports)) :
        legacy \in {<<None, None>>, <<Some(TargetI), Some(TargetL)>>},
        exports \in ExportMaps}
    \cup {Manifest(None, None, None, None, Some(OnlyRoot([import |-> Some(TargetI), default |-> None]))),
          Manifest(Some(NameA), None, None, None,
                   Some([k \in {<< >>} |-> [import |-> Some(TargetI), default |-> None]]))}

\* What sits at <dir>/package.json: nothing, a file that is no manifest, or a
\* manifest.
Absent == [file |-> FALSE, json |-> None]

Garbage == [file |-> TRUE, json |-> None]

Holds(manifest) == [file |-> TRUE, json |-> Some(manifest)]

\* Every manifest shape, for the runs of the registry build alone.
AllManifests == {Absent, Garbage} \cup {Holds(m) : m \in LegacyManifests \cup ExportsManifests}

RootAndSub(root, sub) == [k \in {RootKey, SubKey} |-> IF k = RootKey THEN root ELSE sub]

\* A few manifests, for the runs that go on to resolve and load.
SomeManifests ==
    {Absent,
     Holds(Manifest(Some(NameA), None, None, Some(TargetL), None)),
     Holds(Manifest(Some(NameA), Some(TargetX), None, Some(TargetL), None)),
     Holds(Manifest(Some(NameA), None, None, None,
                    Some(RootAndSub([import |-> Some(TargetL), default |-> None],
                                    [import |-> None, default |-> Some(TargetM)])))),
     Holds(Manifest(Some(NameA), None, None, None,
                    Some(OnlyRoot([import |-> Some(TargetX), default |-> Some(TargetM)]))))}

ManifestsQ ==
    {Holds(Manifest(Some(NameAB), Some(TargetI), None, None, None)),
     Holds(Manifest(Some(NameA), None, None, None,
                    Some(RootAndSub([import |-> Some(TargetI), default |-> None],
                                    [import |-> None, default |-> Some(TargetM)]))))}

DirP == <<"p">>

DirQ == <<"q">>

DirR == <<"r">>

DirS == <<"s">>

PackageFiles(dir, c) ==
    {<<dir, <<"i">>>>, <<dir, <<"m">>>>, <<dir, <<"n">>>>}
    \cup (IF c.file THEN {<<dir, PackageJsonName>>} ELSE {})

\* /p and /q are package directories, /r is a directory without a manifest,
\* /s holds the sources: the entry e, u, a file named a like the package, and
\* the link k to /p/i.  The working directory is /s.
MkFs(cp, cq) ==
    [files |-> PackageFiles(DirP, cp) \cup PackageFiles(DirQ, cq)
               \cup {<<DirR, <<"i">>>>, <<DirS, <<"e">>>>, <<DirS, <<"u">>>>, <<DirS, <<"a">>>>},
     links |-> (<<DirP, <<"l">>>> :> <<DirP, <<"n">>>>)
               @@ (<<DirQ, <<"l">>>> :> <<DirQ, <<"n">>>>)
               @@ (<<DirS, <<"k">>>> :> <<DirP, <<"i">>>>),
     cwd |-> <<DirS>>,
     manifests |-> [f \in {<<DirP, PackageJsonName>>, <<DirQ, PackageJsonName>>} |->
                       IF f[1] = DirP THEN cp.json ELSE cq.json]]

PackageArgs == {<<"/", "p">>, <<"/", "q">>, <<"/", "r">>}

ArgLists == UNION {[1..n -> PackageArgs] : n \in 0..MaxPackages}

Bases ==
    {Real(AbsPath(<<DirS, <<"e">>>>)), Real(PathBufFrom(<<"e">>)), Real(AbsPath(<< >>)), Anon}

Specifiers ==
    {NameA, NameAB, <<".", "/", "u">>, TargetX, <<".", ".", "/", "p", "/", "l">>,
     <<"k">>, <<"/", "s", "/", "u">>, <<"/", "z">>}

Loadables == {Real(AbsPath(<<DirS, <<"e">>>>)), Real(AbsPath(<<DirS, <<"z">>>>)), Anon, Custom}

Start ==
    /\ idx = 1
    /\ packages = EmptyMap
    /\ pc = "build"
    /\ scan = NoScan
    /\ emitted = << >>
    /\ skipped = {}
    /\ request = NoRequest

Init ==
    /\ fs \in {MkFs(cp, cq) : cp \in SomeManifests, cq \in ManifestsQ}
    /\ args_packages \in ArgLists
    /\ Start

\* The bundler asks the Resolver for an import it found.
Resolve ==
    /\ pc = "ready"
    /\ \E base \in Bases, module_specifier \in Specifiers :
          request' = [op |-> "resolve", f |-> base, specifier |-> module_specifier,
                      result |-> resolve(base, module_specifier)]
    /\ UNCHANGED <<fs, args_packages, idx, packages, pc, scan, emitted, skipped>>

\* The bundler asks the Loader for a file; a panic ends the process.
Load ==
    /\ pc = "ready"
    /\ \E f \in Loadables, parses \in BOOLEAN :
          LET r == load(f, parses)
          IN  /\ request' = [op |-> "load", f |-> f, specifier |-> << >>, result |-> r]
              /\ pc' = IF r.kind = "Panic" THEN "panicked" ELSE pc
    /\ UNCHANGED <<fs, args_packages, idx, packages, scan, emitted, skipped>>

Next == FoldPackage \/ FinishBuild \/ Resolve \/ Load

Spec == Init /\ [][Next]_vars

\* The registry build alone, over every manifest shape.
InitScan ==
    /\ fs \in {MkFs(cp, cq) : cp \in AllManifests, cq \in ManifestsQ}
    /\ args_packages \in ArgLists
    /\ Start

NextScan == FoldPackage \/ FinishBuild

SpecScan == InitScan /\ [][NextScan]_vars

\* ------------------------------------------------------------- the claims

\* What a target of a manifest in directory dir names on disk: i, m are
\* files, l is a link to n, x names nothing.
ExpectedTarget(dir, t) ==
    CASE t = TargetI -> Some(AbsPath(<<dir, <<"i">>>>))
      [] t = TargetM -> Some(AbsPath(<<dir, <<"m">>>>))
      [] t = TargetL -> Some(AbsPath(<<dir, <<"n">>>>))
      [] OTHER -> None

\* The manifest of the last scan and the directory it sits in.
ScanManifest == Unwrap(ManifestAt(scan.path))

ScanDir == scan.path.comps[1]

ScannedNamed == scan.called /\ IsSome(ManifestAt(scan.path)) /\ IsSome(ScanManifest.name)

\* A path that is absolute, names something on disk and holds no link or dot
\* component.
IsCanonical(path) == path.abs /\ (path.comps \in fs.files \/ path.comps \in Dirs)

\* C1: a specifier that is a key of the registry resolves to the registered
\* FileName, whatever the base and whatever the file system holds.
C1_RegistryPrecedence ==
    (request.op = "resolve" /\ request.specifier \in DOMAIN packages)
        => request.result = Ok(packages[request.specifier])

\* C1 witness: "a" is registered, the file /s/a sits next to the base /s/e,
\* and the resolution is the registered entry point, not the sibling.
C1_Witness ==
    /\ request.op = "resolve"
    /\ request.specifier = NameA
    /\ NameA \in DOMAIN packages
    /\ request.f = Real(AbsPath(<<DirS, <<"e">>>>))
    /\ <<DirS, <<"a">>>> \in fs.files
    /\ request.result.kind = "Ok"
    /\ request.result.val # Real(AbsPath(<<DirS, <<"a">>>>))

\* C2: a relative specifier that is no registry key, against a Real base,
\* resolves to the canonical path of parent(base)/specifier when that exists
\* and is an error otherwise; an Ok result is always canonical and existing.
C2_RelativeResolution ==
    (/\ request.op = "resolve"
     /\ request.specifier \notin DOMAIN packages
     /\ is_real(request.f)
     /\ request.specifier # << >>
     /\ Head(request.specifier) # "/")
        => LET dir == parent(request.f.path)
               target == IF IsSome(dir)
                         THEN canonicalize(join(Unwrap(dir), PathBufFrom(request.specifier)))
                         ELSE None
           IN  IF IsSome(target)
               THEN /\ request.result = Ok(Real(Unwrap(target)))
                    /\ IsCanonical(request.result.val.path)
               ELSE request.result.kind = "Err"

\* C2 witnesses: ../p/l from /s/e is the link's target /p/n; ./x is an error.
C2_Witness ==
    /\ request.op = "resolve"
    /\ request.f = Real(AbsPath(<<DirS, <<"e">>>>))
    /\ request.specifier = <<".", ".", "/", "p", "/", "l">>
    /\ request.result = Ok(Real(AbsPath(<<DirP, <<"n">>>>)))

C2_WitnessMissing ==
    /\ request.op = "resolve"
    /\ request.f = Real(AbsPath(<<DirS, <<"e">>>>))
    /\ request.specifier = TargetX
    /\ request.result.kind = "Err"

\* The first present of browser, module, main of a manifest (None when none).
FirstLegacyField(m) ==
    IF IsSome(m.browser) THEN m.browser
    ELSE IF IsSome(m.module) THEN m.module
    ELSE m.main

ScannedLegacy == ScannedNamed /\ ~IsSome(ScanManifest.exports)

\* C3 as stated: a named manifest without exports map yields exactly one pair
\* (name, first present of browser, module, main) whenever one of the three
\* is present, and an error when none is.
C3_LegacyAlwaysOnePair ==
    ScannedLegacy
        => IF IsSome(FirstLegacyField(ScanManifest))
           THEN scan.result.kind = "Ok" /\ Len(scan.result.val) = 1
           ELSE scan.result.kind = "Err"

\* C3 amended: the pair is emitted when the target of the first present field
\* exists; when that target does not exist the scan is an error (no lower
\* field is tried), as it is when none of the three is present.
C3_LegacyPriority ==
    ScannedLegacy
        => LET field == FirstLegacyField(ScanManifest)
               target == IF IsSome(field) THEN ExpectedTarget(ScanDir, Unwrap(field)) ELSE None
           IN  IF IsSome(target)
               THEN /\ scan.result = Ok(<< <<Unwrap(ScanManifest.name), Real(Unwrap(target))>> >>)
                    /\ Unwrap(ScanManifest.name) \in DOMAIN packages
                    /\ packages[Unwrap(ScanManifest.name)] = Real(Unwrap(target))
               ELSE /\ scan.result.kind = "Err"
                    /\ packages = scan.before
                    /\ pc = "failed"

\* C3 witness: browser, module and main are all set and browser's target is
\* the one registered.
C3_Witness ==
    /\ ScannedLegacy
    /\ ScanManifest.browser = Some(TargetI)
    /\ ScanManifest.module = Some(TargetM)
    /\ ScanManifest.main = Some(TargetL)
    /\ scan.result = Ok(<< <<Unwrap(ScanManifest.name), Real(AbsPath(<<ScanDir, <<"i">>>>))>> >>)

\* The target the exports entry of key k selects: import, else default.
SelectedTarget(m, k) ==
    LET config == Unwrap(m.exports)[k]
    IN  IF IsSome(config.import) THEN config.import ELSE config.default

\* The name key k is exported under: "." is the package name, "./x" is the
\* name followed by "/x".
ExportedName(name, k) ==
    IF k = RootKey THEN name ELSE name \o <<"/">> \o SubSeq(k, 3, Len(k))

IsSubpathKey(k) == k = RootKey \/ (Len(k) > 2 /\ k[1] = "." /\ k[2] = "/")

ScannedExports == ScannedNamed /\ IsSome(ScanManifest.exports)

ScanKeys == DOMAIN Unwrap(ScanManifest.exports)

\* C4: a named manifest with a non-empty exports map whose keys all select an
\* existing target yields exactly one pair per key, named after the key and
\* pointing at import, else default; the legacy fields add nothing.
C4_ExportsLaw ==
    (/\ ScannedExports
     /\ ScanKeys # {}
     /\ \A k \in ScanKeys :
           /\ IsSubpathKey(k)
           /\ IsSome(SelectedTarget(ScanManifest, k))
           /\ IsSome(ExpectedTarget(ScanDir, Unwrap(SelectedTarget(ScanManifest, k)))))
        => LET name == Unwrap(ScanManifest.name)
               want == {<<ExportedName(name, k),
                          Real(Unwrap(ExpectedTarget(ScanDir, Unwrap(SelectedTarget(ScanManifest, k)))))>> :
                           k \in ScanKeys}
           IN  /\ scan.result.kind = "Ok"
               /\ Len(scan.result.val) = Cardinality(ScanKeys)
               /\ {scan.result.val[i] : i \in DOMAIN scan.result.val} = want
               /\ DOMAIN packages = DOMAIN scan.before \cup {pair[1] : pair \in want}
               /\ \A pair \in want : packages[pair[1]] = pair[2]

\* C4 witness: the manifest of the exports law, with legacy fields set too:
\* "." selects import, "./b" selects default, two pairs a and a/b.
C4_Witness ==
    /\ ScannedExports
    /\ ScanManifest.name = Some(NameA)
    /\ IsSome(ScanManifest.browser)
    /\ ScanKeys = {RootKey, SubKey}
    /\ Unwrap(ScanManifest.exports)[RootKey] = [import |-> Some(TargetI), default |-> Some(TargetM)]
    /\ Unwrap(ScanManifest.exports)[SubKey] = [import |-> None, default |-> Some(TargetM)]
    /\ {scan.result.val[i] : i \in DOMAIN scan.result.val}
          = {<<NameA, Real(AbsPath(<<ScanDir, <<"i">>>>))>>,
             <<NameAB, Real(AbsPath(<<ScanDir, <<"m">>>>))>>}

\* C5 as stated: an exports entry whose selected target does not exist makes
\* the scan return an error value; the process does not panic.
C5_UnresolvedExportIsError ==
    (/\ ScannedExports
     /\ \E k \in ScanKeys :
           /\ IsSome(SelectedTarget(ScanManifest, k))
           /\ ~IsSome(ExpectedTarget(ScanDir, Unwrap(SelectedTarget(ScanManifest, k)))))
        => scan.result.kind = "Err" /\ pc # "panicked"

\* C6 as stated: a build that ends in a registry has scanned the manifest of
\* every configured package directory; none is left out.
C6_NoPackageLeftOut ==
    pc = "ready"
        => \A i \in DOMAIN args_packages :
              /\ IsSome(ManifestAt(ManifestPath(args_packages[i])))
              /\ \E j \in DOMAIN emitted : emitted[j].at = i

\* The value the pairs give key k.
RECURSIVE ValueOf(_, _)
ValueOf(pairs, k) ==
    IF Head(pairs)[1] = k THEN Head(pairs)[2] ELSE ValueOf(Tail(pairs), k)

KeysOf(pairs) == {pairs[i][1] : i \in DOMAIN pairs}

\* The last scan, in fold order, that emitted key k.
LastEmitter(k) ==
    CHOOSE j \in DOMAIN emitted :
        /\ k \in KeysOf(emitted[j].pairs)
        /\ \A j2 \in DOMAIN emitted : k \in KeysOf(emitted[j2].pairs) => j2 <= j

\* C7: the scans are folded in the order of the arguments, and every key of
\* the registry maps to what the last scan that emitted it gave; the keys are
\* exactly the emitted ones.
C7_LastScanWins ==
    /\ \A j, j2 \in DOMAIN emitted : j < j2 => emitted[j].at < emitted[j2].at
    /\ DOMAIN packages = UNION {KeysOf(emitted[j].pairs) : j \in DOMAIN emitted}
    /\ \A k \in DOMAIN packages : packages[k] = ValueOf(emitted[LastEmitter(k)].pairs, k)

\* C7 witness: /p exports a/b as a subpath of a, /q is the package a/b; after
\* the build a/b is /q's entry point and a is still /p's.
C7_Witness ==
    /\ pc = "ready"
    /\ Len(emitted) = 2
    /\ ScanDir = DirQ
    /\ NameAB \in KeysOf(emitted[1].pairs)
    /\ NameAB \in KeysOf(emitted[2].pairs)
    /\ ValueOf(emitted[1].pairs, NameAB) = Real(AbsPath(<<DirP, <<"m">>>>))
    /\ packages[NameAB] = Real(AbsPath(<<DirQ, <<"i">>>>))
    /\ packages[NameA] = ValueOf(emitted[1].pairs, NameA)

\* C8 as stated: loading a FileName that is not Real returns an error value
\* and the process goes on.
C8_LoadNonRealIsError ==
    (request.op = "load" /\ ~is_real(request.f))
        => request.result.kind = "Err" /\ pc # "panicked"

ScannedEmptyExports == ScannedExports /\ ScanKeys = {}

C10_OrderIndependent ==
    ScannedExports
        => \A order \in ExportOrders(scan.path) :
              LET r == load_package_entrypoint(scan.path, order)
              IN  /\ r.kind = scan.result.kind
                  /\ r.kind = "Ok"
                        => InsertAll(scan.before, r.val) = InsertAll(scan.before, scan.result.val)

====
